---------------------------- MODULE Spec2Model ----------------------------
(***************************************************************************)
(* Model of csv_mulch.py: the date parser read_date, the month stepper     *)
(* increment_month, and the module-level script that reads output.csv,     *)
(* sorts the launches by reentry date, buckets the reentries by calendar   *)
(* month and writes monthly.csv.                                           *)
(*                                                                         *)
(* A datetime is a record [year, month, day, tod]; tod is the time of day, *)
(* 0 for midnight (what strptime yields) and 1 for any later instant (what *)
(* datetime.now() yields unless the clock reads midnight exactly).  The    *)
(* sentinels "-" and "*" and a raised exception are records of their own   *)
(* shape.  A raw CSV field is a sequence of lexical tokens.                *)
(***************************************************************************)
EXTENDS Integers, Sequences, FiniteSets, TLC

VARIABLES
    input,            \* rows of output.csv, raw text fields
    pc,               \* position of the script
    error,            \* exception that ended the run, "" if none
    launches,         \* list returned by read_csv, then sorted
    keys,             \* sort keys computed by sorted(), in read order
    clock,            \* latest reading of datetime.now()
    i,                \* index of the for loop over launches
    cur_date,         \* month being accumulated
    cur_month_total,  \* reentries counted in cur_date's month so far
    monthly_totals,   \* rows flushed so far
    monthly_csv,      \* contents of monthly.csv
    arg,              \* argument of a direct call of read_date / increment_month
    ret               \* its result

vars == <<input, pc, error, launches, keys, clock, i, cur_date,
          cur_month_total, monthly_totals, monthly_csv, arg, ret>>

-----------------------------------------------------------------------------
(* Bounds of the model *)

MaxLen == 4        \* tokens in a raw string handed to read_date directly
MaxRecords == 3    \* rows in output.csv

(* Program constants *)

AL_CONST == 143
MAXYEAR == 9999    \* largest year a datetime holds

-----------------------------------------------------------------------------
(* datetime values *)

\* the calendar window of the model: it ends at the last year a datetime
\* holds, so that the ValueError of increment_month lies inside it
Years == {MAXYEAR - 1, MAXYEAR}

IsLeap(y) == (y % 4 = 0 /\ y % 100 # 0) \/ y % 400 = 0

DaysInMonth(y, m) ==
    IF m = 2 THEN (IF IsLeap(y) THEN 29 ELSE 28)
    ELSE IF m \in {4, 6, 9, 11} THEN 30 ELSE 31

DateTime(y, m, d, t) == [year |-> y, month |-> m, day |-> d, tod |-> t]

Sentinel(s) == [sentinel |-> s]

Raise(e) == [exception |-> e]

Unset == [unset |-> TRUE]

IsDate(v) == DOMAIN v = {"year", "month", "day", "tod"}

IsRaise(v) == DOMAIN v = {"exception"}

IsSentinel(v) == DOMAIN v = {"sentinel"}

\* datetime comparison: lexicographic on (year, month, day, time of day)
Ord(dt) == ((dt.year * 12 + (dt.month - 1)) * 32 + dt.day) * 2 + dt.tod

\* datetime(...) / datetime.replace(...): ValueError outside the calendar
MakeDate(y, m, d, t) ==
    IF y < 1 \/ y > MAXYEAR THEN Raise("ValueError")
    ELSE IF m < 1 \/ m > 12 THEN Raise("ValueError")
    ELSE IF d < 1 \/ d > DaysInMonth(y, m) THEN Raise("ValueError")
    ELSE DateTime(y, m, d, t)

-----------------------------------------------------------------------------
(* Raw text: a string is a sequence of tokens *)

Tok(c, v) == [cls |-> c, val |-> v]

Star == Tok("*", 0)
Dash == Tok("-", 0)
Quest == Tok("?", 0)

YearTokens == {Tok("Y", y) : y \in Years}
MonthTokens == {Tok("b", m) : m \in {1, 2, 3, 12}}
DayTokens == {Tok("d", d) : d \in {1, 15, 30}}

Tokens == {Star, Dash, Quest} \cup YearTokens \cup MonthTokens \cup DayTokens

Strings == UNION {[1..n -> Tokens] : n \in 0..MaxLen}

\* datetime.strptime(s, "%Y %b %d")
StrptimeDay(s) ==
    IF Len(s) = 3 /\ s[1].cls = "Y" /\ s[2].cls = "b" /\ s[3].cls = "d"
    THEN MakeDate(s[1].val, s[2].val, s[3].val, 0)
    ELSE Raise("ValueError")

\* datetime.strptime(s, "%Y %b")
StrptimeMonth(s) ==
    IF Len(s) = 2 /\ s[1].cls = "Y" /\ s[2].cls = "b"
    THEN MakeDate(s[1].val, s[2].val, 1, 0)
    ELSE Raise("ValueError")

read_date_keeps_mark(date_string) ==
    IF date_string = <<>> THEN Sentinel("-")
    ELSE IF date_string = <<Star>> THEN Sentinel("*")
    ELSE IF date_string = <<Dash>> THEN Sentinel("-")
    ELSE IF IsRaise(StrptimeDay(date_string)) THEN StrptimeMonth(date_string)
         ELSE StrptimeDay(date_string)

read_date(date_string) ==
    IF date_string = <<>> THEN Sentinel("-")
    ELSE IF date_string = <<Star>> THEN Sentinel("*")
    ELSE IF date_string = <<Dash>> THEN Sentinel("-")
    ELSE LET actual_date ==
                 IF date_string[Len(date_string)] = Quest
                 THEN SubSeq(date_string, 1, Len(date_string) - 1)
                 ELSE date_string
         IN  IF IsRaise(StrptimeDay(actual_date))
             THEN StrptimeMonth(actual_date)
             ELSE StrptimeDay(actual_date)

increment_month_same_year(d) ==
    IF d.month = 12 THEN MakeDate(d.year, 1, d.day, d.tod)
    ELSE MakeDate(d.year, d.month + 1, d.day, d.tod)

increment_month(d) ==
    IF d.month = 12 THEN MakeDate(d.year + 1, 1, d.day, d.tod)
    ELSE MakeDate(d.year, d.month + 1, d.day, d.tod)

\* cur_date.strftime("%d/%m/%Y")
strftime(d) == <<d.day, d.month, d.year>>

\* reentry_date(launch) with the clock reading `now`
reentry_date(launch, now) ==
    IF launch.reentry = Sentinel("-") THEN now ELSE launch.reentry


-----------------------------------------------------------------------------
(* Inputs: the rows of output.csv and the readings of the clock *)

Jan15 == <<Tok("Y", MAXYEAR), Tok("b", 1), Tok("d", 15)>>
Jan30Q == <<Tok("Y", MAXYEAR), Tok("b", 1), Tok("d", 30), Quest>>
MarMonth == <<Tok("Y", MAXYEAR), Tok("b", 3)>>
PrevDec15 == <<Tok("Y", MAXYEAR - 1), Tok("b", 12), Tok("d", 15)>>
LastDec15 == <<Tok("Y", MAXYEAR), Tok("b", 12), Tok("d", 15)>>
Feb30 == <<Tok("Y", MAXYEAR), Tok("b", 2), Tok("d", 30)>>

ReentryStrings ==
    {<<>>, <<Dash>>, <<Star>>, Jan15, Jan30Q, MarMonth, PrevDec15, LastDec15, Feb30}

Row(l, f, r) == [launch |-> l, fail |-> f, reentry |-> r]

InputRows ==
    {Row(PrevDec15, <<Star>>, r) : r \in ReentryStrings}
        \cup {Row(Feb30, <<>>, <<Dash>>), Row(PrevDec15, <<Quest>>, Jan15)}

Inputs == UNION {[1..n -> InputRows] : n \in 0..MaxRecords}

StartTime == DateTime(MAXYEAR, 1, 30, 0)

NowSet == {StartTime, DateTime(MAXYEAR, 1, 30, 1), DateTime(MAXYEAR, 12, 31, 1)}

\* successive readings of datetime.now(), one per element, none before `from`
Readings(n, from) ==
    {r \in [1..n -> NowSet] :
        /\ \A k \in 1..n : Ord(r[k]) >= Ord(from)
        /\ \A k \in 1..n, h \in 1..n : k < h => Ord(r[k]) <= Ord(r[h])}

-----------------------------------------------------------------------------
(* read_csv *)

read_row_reentry_only(row) ==
    IF IsRaise(read_date(row.reentry)) THEN Raise("ValueError")
    ELSE [launch |-> Sentinel("-"), fail |-> Sentinel("-"),
          reentry |-> read_date(row.reentry)]

\* the body of read_csv's loop: the three date fields of one row
read_row(row) ==
    IF IsRaise(read_date(row.launch)) THEN Raise("ValueError")
    ELSE IF IsRaise(read_date(row.fail)) THEN Raise("ValueError")
    ELSE IF IsRaise(read_date(row.reentry)) THEN Raise("ValueError")
    ELSE [launch |-> read_date(row.launch), fail |-> read_date(row.fail),
          reentry |-> read_date(row.reentry)]

\* some row makes read_date raise: the exception leaves read_csv
read_csv_raises(rows) == \E k \in 1..Len(rows) : IsRaise(read_row(rows[k]))

\* the list read_csv returns when no row raises
read_csv(rows) == [k \in 1..Len(rows) |-> read_row(rows[k])]

-----------------------------------------------------------------------------
(* sorted(..., key=reentry_date) *)

\* a str key meets a datetime key: the comparison raises TypeError
KeysIncomparable(ks) ==
    \E a \in 1..Len(ks), b \in 1..Len(ks) : IsSentinel(ks[a]) /\ IsDate(ks[b])

\* all keys are datetimes, or all are the string "*"
KeyOrd(k) == IF IsDate(k) THEN Ord(k) ELSE 0

\* position of element j in the stable ascending order of the keys
Rank(ks, j) ==
    1 + Cardinality({h \in 1..Len(ks) :
                        \/ KeyOrd(ks[h]) < KeyOrd(ks[j])
                        \/ KeyOrd(ks[h]) = KeyOrd(ks[j]) /\ h < j})

sorted(seq, ks) ==
    [p \in 1..Len(seq) |-> seq[CHOOSE j \in 1..Len(seq) : Rank(ks, j) = p]]

-----------------------------------------------------------------------------
(* The script *)

Abort(e) ==
    /\ pc' = "aborted"
    /\ error' = e

Init ==
    /\ input \in Inputs
    /\ pc = "read"
    /\ error = ""
    /\ launches = <<>>
    /\ keys = <<>>
    /\ clock = StartTime
    /\ i = 0
    /\ cur_date = Unset
    /\ cur_month_total = 0
    /\ monthly_totals = <<>>
    /\ monthly_csv = [opened |-> FALSE, header |-> <<>>, rows |-> <<>>]
    /\ arg = Unset
    /\ ret = Unset

\* read_csv("output.csv")
ReadCsv ==
    /\ pc = "read"
    /\ IF read_csv_raises(input)
       THEN Abort("ValueError") /\ UNCHANGED launches
       ELSE pc' = "sort" /\ launches' = read_csv(input) /\ UNCHANGED error
    /\ UNCHANGED <<input, keys, clock, i, cur_date, cur_month_total,
                   monthly_totals, monthly_csv, arg, ret>>

\* launches = sorted(..., key=reentry_date)
Sort ==
    /\ pc = "sort"
    /\ \E r \in Readings(Len(launches), clock) :
         LET ks == [k \in 1..Len(launches) |-> reentry_date(launches[k], r[k])]
             orbiting == {k \in 1..Len(launches) : launches[k].reentry = Sentinel("-")}
         IN  /\ keys' = ks
             /\ clock' = IF orbiting = {} THEN clock
                         ELSE r[CHOOSE k \in orbiting : \A h \in orbiting : h <= k]
             /\ IF KeysIncomparable(ks)
                THEN Abort("TypeError") /\ UNCHANGED launches
                ELSE pc' = "anchor" /\ launches' = sorted(launches, ks)
                     /\ UNCHANGED error
    /\ UNCHANGED <<input, i, cur_date, cur_month_total, monthly_totals,
                   monthly_csv, arg, ret>>

anchor_keeps_day(d) == d

\* .replace(day=1)
anchor(d) == MakeDate(d.year, d.month, 1, d.tod)

\* cur_date = reentry_date(launches[0]).replace(day=1), and the accumulators
Anchor ==
    /\ pc = "anchor"
    /\ IF launches = <<>>
       THEN Abort("IndexError") /\ UNCHANGED <<clock, cur_date, i>>
       ELSE IF launches[1].reentry = Sentinel("*")
       THEN Abort("TypeError") /\ UNCHANGED <<clock, cur_date, i>>
       ELSE /\ \E now \in NowSet :
                 /\ Ord(now) >= Ord(clock)
                 /\ clock' = IF launches[1].reentry = Sentinel("-") THEN now ELSE clock
                 /\ cur_date' = anchor(reentry_date(launches[1], now))
            /\ i' = 1
            /\ pc' = "for"
            /\ UNCHANGED error
    /\ monthly_totals' = <<>>
    /\ cur_month_total' = 0
    /\ UNCHANGED <<input, launches, keys, monthly_csv, arg, ret>>

\* for launch in launches: if launch["Reentry Date"] == "-": break
ForLoop ==
    /\ pc = "for"
    /\ IF i > Len(launches) THEN pc' = "write"
       ELSE IF launches[i].reentry = Sentinel("-") THEN pc' = "write"
       ELSE pc' = "while"
    /\ UNCHANGED <<input, error, launches, keys, clock, i, cur_date,
                   cur_month_total, monthly_totals, monthly_csv, arg, ret>>

month_is_over_strict(d, cur) == Ord(d) > Ord(increment_month(cur))

\* reentry_date(launch) >= increment_month(cur_date)
month_is_over(d, cur) == Ord(d) >= Ord(increment_month(cur))

\* the while condition raises
WhileRaise ==
    /\ pc = "while"
    /\ IsRaise(increment_month(cur_date)) \/ ~IsDate(launches[i].reentry)
    /\ IF IsRaise(increment_month(cur_date))
       THEN Abort("ValueError")
       ELSE Abort("TypeError")
    /\ UNCHANGED <<input, launches, keys, clock, i, cur_date,
                   cur_month_total, monthly_totals, monthly_csv, arg, ret>>

flush_row_keeps_total(cur, total) ==
    [row |-> [Month |-> strftime(cur), Reentered |-> total, Al |-> total * AL_CONST],
     total |-> total]

\* the row appended by the while body and the total it leaves
flush_row(cur, total) ==
    [row |-> [Month |-> strftime(cur), Reentered |-> total, Al |-> total * AL_CONST],
     total |-> 0]

\* the while body: flush the month and move to the next
Flush ==
    /\ pc = "while"
    /\ ~IsRaise(increment_month(cur_date))
    /\ IsDate(launches[i].reentry)
    /\ month_is_over(launches[i].reentry, cur_date)
    /\ monthly_totals' = Append(monthly_totals, flush_row(cur_date, cur_month_total).row)
    /\ cur_date' = increment_month(cur_date)
    /\ cur_month_total' = flush_row(cur_date, cur_month_total).total
    /\ UNCHANGED <<input, pc, error, launches, keys, clock, i, monthly_csv, arg, ret>>

\* the while condition is false: cur_month_total += 1, next launch
Count ==
    /\ pc = "while"
    /\ ~IsRaise(increment_month(cur_date))
    /\ IsDate(launches[i].reentry)
    /\ ~month_is_over(launches[i].reentry, cur_date)
    /\ cur_month_total' = cur_month_total + 1
    /\ i' = i + 1
    /\ pc' = "for"
    /\ UNCHANGED <<input, error, launches, keys, clock, cur_date, monthly_totals,
                   monthly_csv, arg, ret>>

\* with open("monthly.csv", "w"): writeheader, writerows
Write ==
    /\ pc = "write"
    /\ monthly_csv' = [opened |-> TRUE, header |-> <<"Month", "Reentered", "Al">>,
                       rows |-> monthly_totals]
    /\ pc' = "done"
    /\ UNCHANGED <<input, error, launches, keys, clock, i, cur_date,
                   cur_month_total, monthly_totals, arg, ret>>

Next == ReadCsv \/ Sort \/ Anchor \/ ForLoop \/ WhileRaise \/ Flush \/ Count \/ Write

Spec == Init /\ [][Next]_vars

\* the script is sequential code: an enabled step is taken
FairSpec == Init /\ [][Next]_vars /\ WF_vars(Next)

-----------------------------------------------------------------------------
(* read_date and increment_month called on their own *)

Idle ==
    /\ input = <<>>
    /\ error = ""
    /\ launches = <<>>
    /\ keys = <<>>
    /\ clock = StartTime
    /\ i = 0
    /\ cur_date = Unset
    /\ cur_month_total = 0
    /\ monthly_totals = <<>>
    /\ monthly_csv = [opened |-> FALSE, header |-> <<>>, rows |-> <<>>]

ParseInit == Idle /\ pc = "call" /\ arg \in Strings /\ ret = Unset

CallReadDate ==
    /\ pc = "call"
    /\ ret' = read_date(arg)
    /\ pc' = "returned"
    /\ UNCHANGED <<input, error, launches, keys, clock, i, cur_date,
                   cur_month_total, monthly_totals, monthly_csv, arg>>

ParseNext == CallReadDate

ParseSpec == ParseInit /\ [][ParseNext]_vars

DateTimes ==
    {DateTime(y, m, d, t) : y \in Years, m \in 1..12, d \in 1..31, t \in {0, 1}}

IncInit ==
    /\ Idle /\ pc = "call" /\ ret = Unset
    /\ arg \in {d \in DateTimes : d.day <= DaysInMonth(d.year, d.month)}

CallIncrementMonth ==
    /\ pc = "call"
    /\ ret' = increment_month(arg)
    /\ pc' = "returned"
    /\ UNCHANGED <<input, error, launches, keys, clock, i, cur_date,
                   cur_month_total, monthly_totals, monthly_csv, arg>>

IncNext == CallIncrementMonth

IncSpec == IncInit /\ [][IncNext]_vars

-----------------------------------------------------------------------------
(* Vocabulary of the properties *)

\* the Reentry Date of input row k as read_date returns it
Parsed(k) == read_date(input[k].reentry)

DatedIdx == {k \in 1..Len(input) : IsDate(Parsed(k))}

OrbitIdx == {k \in 1..Len(input) : Parsed(k) = Sentinel("-")}

MonthIndex(d) == d.year * 12 + (d.month - 1)

MonthLabel(mi) == <<1, (mi % 12) + 1, mi \div 12>>

LabelIndex(label) == label[3] * 12 + (label[2] - 1)

CountIn(mi) == Cardinality({k \in DatedIdx : MonthIndex(Parsed(k)) = mi})

FirstMonth == CHOOSE mi \in {MonthIndex(Parsed(k)) : k \in DatedIdx} :
                 \A k \in DatedIdx : mi <= MonthIndex(Parsed(k))

LastMonth == CHOOSE mi \in {MonthIndex(Parsed(k)) : k \in DatedIdx} :
                \A k \in DatedIdx : mi >= MonthIndex(Parsed(k))

\* one label per month from the first reentry's month up to, not including,
\* the last reentry's month
ExpectedMonths == [n \in 1..(LastMonth - FirstMonth) |-> MonthLabel(FirstMonth + n - 1)]

ExpectedRows ==
    [n \in 1..(LastMonth - FirstMonth) |->
        [Month |-> MonthLabel(FirstMonth + n - 1),
         Reentered |-> CountIn(FirstMonth + n - 1),
         Al |-> CountIn(FirstMonth + n - 1) * 143]]

EmittedMonths == [n \in 1..Len(monthly_totals) |-> monthly_totals[n].Month]

SortDone == pc \in {"anchor", "for", "while", "write", "done"}

ScanOver == pc \in {"write", "done"}

\* no concrete reentry date is later than a "now" that stood in for a "-"
NoLaterThanNow ==
    \A k \in DatedIdx, h \in OrbitIdx : Ord(Parsed(k)) <= Ord(keys[h])

IsDateForm(s) == IsDate(StrptimeDay(s)) \/ IsDate(StrptimeMonth(s))

AcceptedForm(s) ==
    \/ s \in {<<>>, <<Dash>>, <<Star>>}
    \/ IsDateForm(s)
    \/ Len(s) > 0 /\ s[Len(s)] = Quest /\ IsDateForm(SubSeq(s, 1, Len(s) - 1))

WellFormedInput ==
    /\ Len(input) > 0
    /\ \A k \in 1..Len(input) :
         AcceptedForm(input[k].launch) /\ AcceptedForm(input[k].fail)
             /\ AcceptedForm(input[k].reentry)

-----------------------------------------------------------------------------
(* The script's scan *)

\* C1: with at least one dated record and no concrete reentry date later than
\* "now", the rows appended to monthly_totals are one per calendar month, in
\* ascending order without gaps, from the month of the earliest reentry to
\* the month before the month of the latest reentry.
C1_MonthsEmitted ==
    (ScanOver /\ DatedIdx # {} /\ NoLaterThanNow) => EmittedMonths = ExpectedMonths

\* C2: under the same precondition every emitted row carries the number of
\* input records that reentered in its month and 143 times that number, and
\* no two rows stand for the same month.
C2_RowCounts ==
    (SortDone /\ NoLaterThanNow) =>
        /\ pc = "done" => monthly_csv.rows = monthly_totals
        /\ \A n \in 1..Len(monthly_totals) :
               /\ monthly_totals[n].Reentered = CountIn(LabelIndex(monthly_totals[n].Month))
               /\ monthly_totals[n].Al = monthly_totals[n].Reentered * 143
               /\ \A h \in 1..Len(monthly_totals) :
                     monthly_totals[h].Month = monthly_totals[n].Month => h = n

C2_Witness ==
    /\ pc = "done"
    /\ NoLaterThanNow
    /\ Len(monthly_csv.rows) = 2
    /\ monthly_csv.rows[1].Reentered = 2
    /\ monthly_csv.rows[2].Reentered = 0

\* C3: in the sorted list every record whose Reentry Date is "-" comes after
\* every record whose Reentry Date is a concrete date.
C3_OrbitingSortLast ==
    SortDone =>
        \A p \in 1..Len(launches), q \in 1..Len(launches) :
            (launches[p].reentry = Sentinel("-") /\ IsDate(launches[q].reentry)) => q < p

\* C4: the emitted rows depend on the dated records alone: whatever "-"
\* records the list holds, the rows are those of the list's dated records.
C4_OrbitingIgnored ==
    (ScanOver /\ DatedIdx # {}) => monthly_totals = ExpectedRows

\* C5: a non-empty input whose date fields all have an accepted form never
\* ends the run in an error.
C5_AcceptedInputRuns ==
    WellFormedInput => pc # "aborted"

\* C8: a run that aborts leaves monthly.csv untouched, and a run whose input
\* has an unparseable date field in any column of any row, or no rows, aborts
\* before monthly.csv is opened.
C8_AbortLeavesNoOutput ==
    /\ pc = "aborted" => monthly_csv = [opened |-> FALSE, header |-> <<>>, rows |-> <<>>]
    /\ (\E k \in 1..Len(input) :
           \/ IsRaise(read_date(input[k].launch))
           \/ IsRaise(read_date(input[k].fail))
           \/ IsRaise(read_date(input[k].reentry))) => pc \in {"read", "aborted"}
    /\ input = <<>> => pc \in {"read", "sort", "anchor", "aborted"}

C8_Witness ==
    /\ pc = "aborted"
    /\ \E k \in 1..Len(input) :
          IsRaise(read_date(input[k].launch)) /\ input[k].reentry = <<Dash>>

\* C9: for a non-empty list of well-formed records the run reaches the write
\* of monthly.csv and ends.
C9_RunCompletes ==
    WellFormedInput ~> (pc = "done")

\* C10: cur_date is always the first day of a month and never decreases, and
\* whenever cur_month_total is incremented for a record, the record's reentry
\* date d satisfies cur_date <= d < increment_month(cur_date).
C10_ScanInvariant ==
    [][/\ cur_date' # Unset => cur_date'.day = 1
       /\ cur_date # Unset => Ord(cur_date') >= Ord(cur_date)
       /\ cur_month_total' = cur_month_total + 1 =>
             /\ IsDate(launches[i].reentry)
             /\ Ord(cur_date) <= Ord(launches[i].reentry)
             /\ Ord(launches[i].reentry) < Ord(increment_month(cur_date))]_vars

C10_Witness ==
    /\ pc = "for"
    /\ cur_month_total = 1
    /\ Len(monthly_totals) >= 2
    /\ launches[i - 1].reentry.day = 1

-----------------------------------------------------------------------------
(* read_date and increment_month *)

\* the reference reading of a raw string
RefReadDate(s) ==
    IF s = <<>> THEN Sentinel("-")
    ELSE IF s \in {<<Star>>, <<Dash>>} THEN Sentinel(s[1].cls)
    ELSE LET body == IF s[Len(s)] = Quest THEN SubSeq(s, 1, Len(s) - 1) ELSE s
         IN  IF /\ Len(body) = 3
                /\ body[1] \in YearTokens /\ body[2] \in MonthTokens
                /\ body[3] \in DayTokens
                /\ body[3].val <= DaysInMonth(body[1].val, body[2].val)
             THEN DateTime(body[1].val, body[2].val, body[3].val, 0)
             ELSE IF Len(body) = 2 /\ body[1] \in YearTokens /\ body[2] \in MonthTokens
             THEN DateTime(body[1].val, body[2].val, 1, 0)
             ELSE Raise("ValueError")

NextMonthStart(d) ==
    IF d.month = 12 THEN DateTime(d.year + 1, 1, 1, d.tod)
    ELSE DateTime(d.year, d.month + 1, 1, d.tod)

\* C6 as claimed: increment_month maps every first-of-month date to the first
\* day of the following month, which is strictly greater.
C6_EveryFirstOfMonth ==
    (pc = "returned" /\ arg.day = 1) =>
        ret = NextMonthStart(arg) /\ Ord(ret) > Ord(arg)

\* C6 as amended: the same for every first-of-month date except December of
\* year 9999, where no following month exists and the call raises ValueError.
C6_UpToMaxYear ==
    (pc = "returned" /\ arg.day = 1) =>
        IF arg.year = MAXYEAR /\ arg.month = 12
        THEN ret = Raise("ValueError")
        ELSE ret = NextMonthStart(arg) /\ Ord(ret) > Ord(arg)

C6_Witness ==
    /\ pc = "returned"
    /\ arg = DateTime(MAXYEAR - 1, 12, 1, 0)
    /\ ret = DateTime(MAXYEAR, 1, 1, 0)

=============================================================================
